---------------------------- MODULE Spec2Model ----------------------------
(* Model of src/app.py: the Notion transcript lister, the page content     *)
(* fetcher, the Gemini summarizer, the Notion page writer and the          *)
(* Streamlit script that drives them.                                      *)
(*                                                                         *)
(* A Python str is a sequence of one-character strings.                    *)
(* src/app.py:96-97 are indented one level too shallow in the file; they   *)
(* are read here as the first two statements of the if of line 95, the     *)
(* only nesting under which lines 95-100 form a block.                     *)
EXTENDS Integers, Sequences, FiniteSets, TLC

VARIABLES
    children,   \* workspace: container id -> its child blocks, in creation order
    cache,      \* st.cache_data store of get_transcript_pages: argument -> entry
    now,        \* wall clock, in seconds
    last,       \* the last call made: its arguments, what the remote services
                \* answered, and what the call did
    listed      \* history: container id -> time and result of the last call of
                \* the lister that queried the workspace for it

vars == <<children, cache, now, last, listed>>

-----------------------------------------------------------------------------
(* Bounds                                                                  *)

MaxMdLen == 8          \* longest enumerated markdown string
MaxExtra == 2          \* paragraphs beyond the block limit in long inputs
MaxReplyPieces == 5    \* pieces a model reply is assembled from
MaxFetchBlocks == 3    \* blocks of a fetched page
ApiPageSize == 6       \* blocks the workspace API returns per cursor page
MaxCreated == 2        \* sub-pages added to a container
MaxMinutes == 1        \* minutes pages written
TickSecs == 300        \* seconds between two observations of the clock
MaxNow == 900          \* the clock stops here

(* Program constants                                                       *)

RecentCount == 5
BlockLimit == 100
CacheTTL == 600

TRANSCRIPT_PARENT_PAGE_ID == "transcripts"
MINUTES_PARENT_PAGE_ID == "minutes"

None == "None"
NoCursor == 0

-----------------------------------------------------------------------------
(* Python str operations                                                   *)

Min(S) == CHOOSE x \in S : \A y \in S : x <= y

IsSpace(c) == c \in {" ", "\n", "\t"}

\* str.strip()
Strip(s) ==
    LET keep == SelectSeq([i \in 1..Len(s) |-> i], LAMBDA i : ~IsSpace(s[i]))
    IN  IF keep = <<>> THEN <<>> ELSE SubSeq(s, keep[1], keep[Len(keep)])

\* s[i:].startswith(lit), i counted from 1
MatchAt(s, i, lit) ==
    /\ i + Len(lit) - 1 <= Len(s)
    /\ SubSeq(s, i, i + Len(lit) - 1) = lit

\* str.split(sep) for a separator that repeats one character (the program
\* splits on "\n\n" and on "\n"): scanning from the left, the separator is
\* found at the start of a run of that character and then at every Len(sep)
\* characters of the run for as long as it fits (before(i) is the number of
\* characters of the run before position i), and the pieces are what lies
\* between the separators found
Split(s, sep) ==
    LET m == Len(sep)
        before(i) == CHOOSE d \in 0..(i - 1) :
                         /\ \A k \in 1..d : s[i - k] = sep[1]
                         /\ d = i - 1 \/ s[i - d - 1] # sep[1]
        found == SelectSeq([i \in 1..Len(s) |-> i],
                     LAMBDA i : MatchAt(s, i, sep) /\ before(i) % m = 0)
        n == Len(found)
    IN  [k \in 1..(n + 1) |->
            SubSeq(s, IF k = 1 THEN 1 ELSE found[k - 1] + m,
                      IF k = n + 1 THEN Len(s) ELSE found[k] - 1)]

RECURSIVE Concat(_)
Concat(ss) == IF ss = <<>> THEN <<>> ELSE Head(ss) \o Concat(Tail(ss))

-----------------------------------------------------------------------------
(* Exceptions: a raised exception is caught by the first except clause     *)
(* whose class it is an instance of.                                       *)

ExcKinds == {"APIResponseError", "OtherException"}

IsInstance(e, cls) == cls = "Exception" \/ cls = e

Caught(e, clauses) == \E i \in 1..Len(clauses) : IsInstance(e, clauses[i])

ClauseOf(e, clauses) == clauses[Min({i \in 1..Len(clauses) : IsInstance(e, clauses[i])})]

-----------------------------------------------------------------------------
(* Page writer: create_notion_page_with_markdown                           *)

TextRun(content) == [type |-> "text", content |-> content]

RECURSIVE TextObjects(_, _, _)
\* the loop of lines 174-188 from index i on (i counted from 0)
TextObjects(lines, i, acc) ==
    IF i >= Len(lines) THEN acc
    ELSE LET withLine == Append(acc, TextRun(lines[i + 1]))
         IN  TextObjects(lines, i + 1,
                 IF i < Len(lines) - 1
                 THEN Append(withLine, TextRun(<<"\n">>))
                 ELSE withLine)

ParagraphBlock(para_strip) ==
    [object |-> "block", type |-> "paragraph",
     rich_text |-> TextObjects(Split(para_strip, <<"\n">>), 0, <<>>)]

BatchFullOff(blocks) == Len(blocks) > BlockLimit

BatchFull(blocks) == Len(blocks) >= BlockLimit

KeepParaAll(para_strip) == TRUE

KeepPara(para_strip) == para_strip # <<>>

\* the loop of lines 165-201: a block is appended for every paragraph kept,
\* and the loop is left, with a warning, after the first append that fills the
\* batch
BuildBlocks(paragraphs) ==
    LET stripped == [k \in 1..Len(paragraphs) |-> Strip(paragraphs[k])]
        kept == SelectSeq(stripped, KeepPara)
        full == {n \in 1..Len(kept) : BatchFull([k \in 1..n |-> kept[k]])}
        used == IF full = {} THEN Len(kept) ELSE Min(full)
    IN  [blocks |-> [k \in 1..used |-> ParagraphBlock(kept[k])],
         warnings |-> IF full = {} THEN 0 ELSE 1]

MarkdownToBlocks(markdown_content) ==
    BuildBlocks(Split(Strip(markdown_content), <<"\n", "\n">>))

-----------------------------------------------------------------------------
(* Result of one call of a component: the value returned, the messages     *)
(* shown to the user, the remote calls made, and the exception that left   *)
(* the function ("none" when it returned).                                 *)

Returned(result, msgs, calls) ==
    [result |-> result, msgs |-> msgs, calls |-> calls, raised |-> "none"]

Escaped(e, msgs, calls) ==
    [result |-> "no value", msgs |-> msgs, calls |-> calls, raised |-> e]

-----------------------------------------------------------------------------
(* Summarizer: generate_minutes_with_gemini                                *)

\* the backquote character, written by name: a string literal of the language
\* cannot hold it
Backquote == "backquote"

Fence == <<Backquote, Backquote, Backquote>>
FenceMarkdown == Fence \o <<"m", "a", "r", "k", "d", "o", "w", "n">>

\* length of the run of whitespace starting at s[i]
SpaceRun(s, i) ==
    LET stops == {j \in i..Len(s) : ~IsSpace(s[j])}
    IN  IF stops = {} THEN Len(s) + 1 - i ELSE Min(stops) - i

\* ^ : with re.MULTILINE, the start of the string or just after a newline
AtLineStart(s, i) == i = 1 \/ s[i - 1] = "\n"

\* $ : with re.MULTILINE, the end of the string or just before a newline
AtLineEnd(s, i) == i > Len(s) \/ s[i] = "\n"

\* the alternative  ^ FenceMarkdown \s*  matched at s[i]: one past the end of
\* the match, 0 if there is none
MatchOpen(s, i) ==
    IF AtLineStart(s, i) /\ MatchAt(s, i, FenceMarkdown)
    THEN LET j == i + Len(FenceMarkdown) IN j + SpaceRun(s, j)
    ELSE 0

\* the alternative  \s* Fence $  matched at s[i]: \s* is greedy and only the
\* whole run of whitespace can be followed by a backquote
MatchClose(s, i) ==
    LET j == i + SpaceRun(s, i)
    IN  IF MatchAt(s, j, Fence) /\ AtLineEnd(s, j + Len(Fence))
        THEN j + Len(Fence)
        ELSE 0

RECURSIVE ReSub(_, _, _)
\* re.sub with re.MULTILINE and an empty replacement (line 134) from s[i] on: every
\* leftmost non-overlapping match of either alternative is deleted, the
\* first alternative tried first
ReSub(s, i, acc) ==
    IF i > Len(s) THEN acc
    ELSE LET open == MatchOpen(s, i)
             close == MatchClose(s, i)
         IN  IF open # 0 THEN ReSub(s, open, acc)
             ELSE IF close # 0 THEN ReSub(s, close, acc)
             ELSE ReSub(s, i + 1, Append(acc, s[i]))

CleanFences(text) == Strip(ReSub(text, 1, <<>>))

SummarizerCatches == <<"Exception">>

RejectsTranscript(transcript) == transcript = <<>>

\* reply: what model.generate_content does for the prompt built from the
\* transcript: it raises, or returns a response with or without .text, or a
\* response whose .text raises when read
generate_minutes_with_gemini(transcript, reply) ==
    IF RejectsTranscript(transcript)
    THEN Returned(<<>>, <<"warning: transcript empty">>, <<>>)
    ELSE LET calls == <<[api |-> "generate_content", arg |-> transcript]>>
         IN  CASE reply.kind = "text" ->
                    Returned(CleanFences(reply.text), <<>>, calls)
               [] reply.kind = "no_text" ->
                    Returned(<<>>, <<"error: no text in response", "warning: prompt feedback">>, calls)
               [] OTHER ->
                    IF Caught(reply.exc, SummarizerCatches)
                    THEN Returned(<<>>,
                             <<"error: Gemini API", "error: type", "error: args">>
                                 \o (IF reply.kind = "text_raises" THEN <<"json: response">> ELSE <<>>),
                             calls)
                    ELSE Escaped(reply.exc, <<>>, calls)

-----------------------------------------------------------------------------
(* Workspace API: notion.blocks.children.list over the cursor pages of a   *)
(* block's children; a cursor is the number of the cursor page it opens.   *)

RECURSIVE Paginate(_, _)
Paginate(blocks, size) ==
    IF Len(blocks) <= size THEN <<blocks>>
    ELSE <<SubSeq(blocks, 1, size)>> \o Paginate(SubSeq(blocks, size + 1, Len(blocks)), size)

BlocksChildrenList(pages, start_cursor) ==
    LET n == IF start_cursor = NoCursor THEN 1 ELSE start_cursor
    IN  [results |-> pages[n],
         next_cursor |-> IF n < Len(pages) THEN n + 1 ELSE NoCursor]

-----------------------------------------------------------------------------
(* Content fetcher: get_page_content                                       *)

SupportedTypesAll == {"paragraph", "heading_1", "heading_2", "heading_3",
                      "bulleted_list_item", "numbered_list_item", "quote", "code",
                      "image", "child_page"}

SupportedTypes == {"paragraph", "heading_1", "heading_2", "heading_3",
                   "bulleted_list_item", "numbered_list_item", "quote", "code"}

RECURSIVE BlockText(_, _, _)
\* the loop of lines 98-99 over rich_text from index k on
BlockText(rich_text, k, all_text) ==
    IF k > Len(rich_text) THEN all_text
    ELSE BlockText(rich_text, k + 1, all_text \o rich_text[k].plain_text)

RECURSIVE AppendBlocks(_, _, _)
\* the loop of lines 93-100 over results from index k on
AppendBlocks(results, k, all_text) ==
    IF k > Len(results) THEN all_text
    ELSE LET block == results[k]
         IN  IF block.type \in SupportedTypes
             THEN AppendBlocks(results, k + 1,
                      BlockText(block.rich_text, 1, all_text) \o <<"\n">>)
             ELSE AppendBlocks(results, k + 1, all_text)

FetcherCatchesApiOnly == <<"APIResponseError">>

FetcherCatches == <<"APIResponseError", "Exception">>

NextCursor(response) == response.next_cursor

RECURSIVE FetchLoop(_, _, _, _, _, _)
\* the while loop of lines 87-104; fail is [at, exc]: the remote call number
\* fail.at raises fail.exc (no call raises when fail.at = 0)
FetchLoop(page_id, pages, fail, next_cursor, all_text, calls) ==
    LET calls2 == Append(calls, [api |-> "blocks.children.list",
                                 arg |-> page_id, start_cursor |-> next_cursor])
    IN  IF Len(calls2) = fail.at
        THEN IF Caught(fail.exc, FetcherCatches)
             THEN Returned(<<>>, <<"error: " \o ClauseOf(fail.exc, FetcherCatches)>>, calls2)
             ELSE Escaped(fail.exc, <<>>, calls2)
        ELSE LET response == BlocksChildrenList(pages, next_cursor)
                 text2 == AppendBlocks(response.results, 1, all_text)
                 cursor2 == NextCursor(response)
             IN  IF cursor2 = NoCursor
                 THEN Returned(Strip(text2), <<>>, calls2)
                 ELSE FetchLoop(page_id, pages, fail, cursor2, text2, calls2)

get_page_content(page_id, pages, fail) ==
    FetchLoop(page_id, pages, fail, NoCursor, <<>>, <<>>)

-----------------------------------------------------------------------------
(* Page lister: get_transcript_pages                                       *)

Containers == {TRANSCRIPT_PARENT_PAGE_ID, MINUTES_PARENT_PAGE_ID}

ChildPage(id, title) == [type |-> "child_page", id |-> id, title |-> title]

OtherBlock(id) == [type |-> "paragraph", id |-> id, title |-> "n/a"]

RECURSIVE ChildPagesOf(_, _, _)
\* the loop of lines 65-70 over results from index k on
ChildPagesOf(results, k, child_pages) ==
    IF k > Len(results) THEN child_pages
    ELSE IF results[k].type = "child_page"
         THEN ChildPagesOf(results, k + 1,
                  Append(child_pages, [title |-> results[k].title, id |-> results[k].id]))
         ELSE ChildPagesOf(results, k + 1, child_pages)

Reverse(seq) == [i \in 1..Len(seq) |-> seq[Len(seq) + 1 - i]]

\* seq[:n]
Take(seq, n) == SubSeq(seq, 1, IF Len(seq) < n THEN Len(seq) ELSE n)

ListerCatches == <<"APIResponseError", "Exception">>

\* the function body (lines 62-80): blocks are the children the workspace
\* holds for parent_page_id, outcome is "ok" or the exception the remote call
\* raises
ListerBody(parent_page_id, blocks, outcome) ==
    LET calls == <<[api |-> "blocks.children.list", arg |-> parent_page_id,
                    start_cursor |-> NoCursor]>>
    IN  IF outcome = "ok"
        THEN LET response == BlocksChildrenList(Paginate(blocks, ApiPageSize), NoCursor)
                 child_pages == ChildPagesOf(response.results, 1, <<>>)
             IN  Returned(Take(Reverse(child_pages), RecentCount), <<>>, calls)
        ELSE IF Caught(outcome, ListerCatches)
             THEN Returned(<<>>, <<"error: " \o ClauseOf(outcome, ListerCatches)>>, calls)
             ELSE Escaped(outcome, <<>>, calls)

NoEntry == [present |-> FALSE, value |-> <<>>, msgs |-> <<>>, stamp |-> 0]

FreshForever(entry, t) == entry.present

\* st.cache_data(ttl=600): an entry is served until it is CacheTTL old
Fresh(entry, t) == entry.present /\ t - entry.stamp < CacheTTL

\* the cache key is the argument of the call
CacheKey(parent_page_id) == parent_page_id

\* the decorated function: [out, cache, hit]
get_transcript_pages(parent_page_id, outcome) ==
    LET key == CacheKey(parent_page_id)
        entry == cache[key]
    IN  IF Fresh(entry, now)
        THEN [out |-> Returned(entry.value, entry.msgs, <<>>), cache |-> cache, hit |-> TRUE]
        ELSE LET out == ListerBody(parent_page_id, children[parent_page_id], outcome)
             IN  [out |-> out,
                  cache |-> IF out.raised = "none"
                            THEN [cache EXCEPT ![key] =
                                     [present |-> TRUE, value |-> out.result,
                                      msgs |-> out.msgs, stamp |-> now]]
                            ELSE cache,
                  hit |-> FALSE]

-----------------------------------------------------------------------------
(* Page writer, continued                                                  *)

WriterCatches == <<"APIResponseError", "Exception">>

CreatesOnEmpty(markdown_content) == FALSE

RejectsMarkdown(markdown_content) == markdown_content = <<>>

Warnings(n) == [i \in 1..n |-> "warning: truncated"]

\* outcome is what notion.pages.create does: [ok, id] the page it makes, or
\* [ok, exc] the exception it raises
create_notion_page_with_markdown(parent_page_id, title, markdown_content, outcome) ==
    IF RejectsMarkdown(markdown_content)
    THEN Returned(None, <<"warning: no content">>, <<>>)
    ELSE LET built == MarkdownToBlocks(markdown_content)
             calls == <<[api |-> "pages.create", arg |-> parent_page_id,
                         title |-> title, children |-> built.blocks]>>
             warned == Warnings(built.warnings)
         IN  IF outcome.ok
             THEN Returned(outcome.id, warned \o <<"success", "markdown: link">>, calls)
             ELSE IF Caught(outcome.exc, WriterCatches)
                  THEN Returned(None,
                           warned \o <<"error: " \o ClauseOf(outcome.exc, WriterCatches)>>
                                  \o (IF ClauseOf(outcome.exc, WriterCatches) = "APIResponseError"
                                      THEN <<"json: body">> ELSE <<>>),
                           calls)
                  ELSE Escaped(outcome.exc, warned, calls)

-----------------------------------------------------------------------------
(* The Streamlit script (lines 244-289): one run of it, with the choice    *)
(* the user made in the select box and whether the button was pressed.     *)

DictSet(d, k, v) ==
    IF \E i \in 1..Len(d) : d[i].key = k
    THEN [i \in 1..Len(d) |-> IF d[i].key = k THEN [key |-> k, value |-> v] ELSE d[i]]
    ELSE Append(d, [key |-> k, value |-> v])

DictGet(d, k) == d[CHOOSE i \in 1..Len(d) : d[i].key = k].value

RECURSIVE PageOptions(_, _, _)
\* the dict comprehension of line 249 from entry k on
PageOptions(transcript_pages, k, d) ==
    IF k > Len(transcript_pages) THEN d
    ELSE PageOptions(transcript_pages, k + 1,
             DictSet(d, transcript_pages[k].title, transcript_pages[k].id))

\* if transcript_text: (line 265)
ProceedAfterFetch(transcript_text) == transcript_text # <<>>

\* if generated_minutes_md: (line 270)
ProceedAfterSummary(generated_minutes_md) == generated_minutes_md # <<>>

MinutesToWriteSwapped(generated_minutes_md, transcript_text) == transcript_text

\* markdown_content=generated_minutes_md (line 281)
MinutesToWrite(generated_minutes_md, transcript_text) == generated_minutes_md

NewPageTitle(selected_page_title) == selected_page_title \o " - minutes"

Step(fn, arg) == [fn |-> fn, arg |-> arg]

Flow(invoked, out, transcript_text, generated_minutes_md) ==
    [invoked |-> invoked, out |-> out,
     transcript_text |-> transcript_text, generated_minutes_md |-> generated_minutes_md]

Then(out1, out2) ==
    [result |-> out2.result, msgs |-> out1.msgs \o out2.msgs,
     calls |-> out1.calls \o out2.calls, raised |-> out2.raised]

\* the button handler (lines 261-289)
Generate(selected_page_title, selected_page_id, env) ==
    IF selected_page_id = ""
    THEN Flow(<<>>, Returned(None, <<"warning: no page selected">>, <<>>), <<>>, <<>>)
    ELSE
    LET f == get_page_content(selected_page_id, env.pages, env.fail)
        inv1 == <<Step("get_page_content", selected_page_id)>>
    IN  IF f.raised # "none" THEN Flow(inv1, f, <<>>, <<>>)
        ELSE IF ~ProceedAfterFetch(f.result)
        THEN Flow(inv1, Then(f, Returned(None, <<"error: no transcript">>, <<>>)), f.result, <<>>)
        ELSE
        LET g == generate_minutes_with_gemini(f.result, env.reply)
            inv2 == Append(inv1, Step("generate_minutes_with_gemini", f.result))
            fg == Then([f EXCEPT !.msgs = Append(@, "info: fetched")], g)
        IN  IF g.raised # "none" THEN Flow(inv2, fg, f.result, <<>>)
            ELSE IF ~ProceedAfterSummary(g.result)
            THEN Flow(inv2, Then(fg, Returned(None, <<"error: generation failed">>, <<>>)),
                      f.result, g.result)
            ELSE
            LET md == MinutesToWrite(g.result, f.result)
                w == create_notion_page_with_markdown(MINUTES_PARENT_PAGE_ID,
                         NewPageTitle(selected_page_title), md, env.created)
                inv3 == Append(inv2, Step("create_notion_page_with_markdown", md))
            IN  Flow(inv3, Then([fg EXCEPT !.msgs = Append(@, "markdown: preview")], w),
                     f.result, g.result)

NoFlow(out) == Flow(<<>>, out, <<>>, <<>>)

\* the whole script: [flow, cache, transcript_pages, page_options, selected_page_id]
Script(env) ==
    LET listing == get_transcript_pages(TRANSCRIPT_PARENT_PAGE_ID, env.listOutcome)
        transcript_pages == listing.out.result
        shown(flow, options, id) ==
            [flow |-> flow, cache |-> listing.cache, hit |-> listing.hit,
             listed |-> listing.out.raised = "none" /\ listing.out.calls # <<>>,
             transcript_pages |-> IF listing.out.raised = "none" THEN transcript_pages ELSE <<>>,
             page_options |-> options, selected_page_id |-> id]
    IN  IF listing.out.raised # "none" THEN shown(NoFlow(listing.out), <<>>, "")
        ELSE IF transcript_pages = <<>>
        THEN shown(NoFlow(Then(listing.out, Returned(None, <<"warning: no pages">>, <<>>))), <<>>, "")
        ELSE
        LET page_options == PageOptions(transcript_pages, 1, <<>>)
            selected_page_title == transcript_pages[env.wanted].title
            selected_page_id == DictGet(page_options, selected_page_title)
        IN  IF env.pressed
            THEN LET flow == Generate(selected_page_title, selected_page_id, env)
                 IN  shown([flow EXCEPT !.out = Then(listing.out, @)], page_options, selected_page_id)
            ELSE shown(NoFlow(listing.out), page_options, selected_page_id)

-----------------------------------------------------------------------------
(* Inputs                                                                  *)

Seqs(S, n) == UNION {[1..k -> S] : k \in 0..n}

BlockId(n) == "block-" \o ToString(n)

NewId == BlockId(Len(children[TRANSCRIPT_PARENT_PAGE_ID]) + Len(children[MINUTES_PARENT_PAGE_ID]) + 1)

Titles == {"A", "B"}

\* children of a container: each a sub-page with a title, or another block
ChildShapes == Titles \cup {"paragraph"}

MkChildren(shapes) ==
    [i \in 1..Len(shapes) |->
        IF shapes[i] \in Titles THEN ChildPage(BlockId(i), shapes[i]) ELSE OtherBlock(BlockId(i))]

ListOutcomes == {"ok"} \cup ExcKinds

Chars(str) == [plain_text |-> str]

Hello == <<"H", "e", "l", "l", "o">>

Block(type, rich_text) == [type |-> type, rich_text |-> rich_text]

FetchBlockShapes ==
    {Block(t, <<Chars(Hello)>>) : t \in SupportedTypes \cup {"image", "child_page"}}
    \cup {Block("paragraph", <<>>),
          Block("code", <<Chars(<<"x">>), Chars(<<"=", "1">>)>>),
          Block("quote", <<Chars(<<" ", "a", " ">>)>>)}

RECURSIVE Segments(_, _)
\* blocks cut into cursor pages after the positions in cuts
Segments(blocks, cuts) ==
    IF cuts = {} THEN <<blocks>>
    ELSE LET c == Min(cuts)
         IN  <<SubSeq(blocks, 1, c)>>
                 \o Segments(SubSeq(blocks, c + 1, Len(blocks)), {x - c : x \in cuts \ {c}})

FetchInputs ==
    UNION {{Segments(b, cuts) : cuts \in SUBSET (1..(Len(b) - 1))} :
              b \in Seqs(FetchBlockShapes, MaxFetchBlocks)}

NoFail == [at |-> 0, exc |-> "none"]

SmallFetchInputs ==
    {<<<<>>>>,
     <<<<Block("paragraph", <<Chars(Hello)>>)>>>>,
     <<<<Block("paragraph", <<Chars(Hello)>>)>>, <<Block("image", <<>>), Block("code", <<Chars(<<"x">>)>>)>>>>}

Fails(pages) == {NoFail} \cup {[at |-> n, exc |-> e] : n \in 1..Len(pages), e \in ExcKinds}

TextReply(text) == [kind |-> "text", text |-> text, exc |-> "none"]

FailedReplies ==
    {[kind |-> "no_text", text |-> <<>>, exc |-> "none"]}
    \cup {[kind |-> k, text |-> <<>>, exc |-> e] : k \in {"raises", "text_raises"}, e \in ExcKinds}

ReplyPieces == {Fence, <<"m", "a", "r", "k", "d", "o", "w", "n">>, <<"\n">>, <<" ">>, <<"a">>}

ReplyTexts == {Concat(ps) : ps \in Seqs(ReplyPieces, MaxReplyPieces)}

SmallReplies ==
    {TextReply(<<"a">>), TextReply(<<" ">>),
     TextReply(FenceMarkdown \o <<"\n", "a", "\n", "b", "\n">> \o Fence)}
    \cup FailedReplies

ShortMarkdowns == Seqs({"a", " ", "\n"}, MaxMdLen)

DigitChars == <<"0", "1", "2", "3", "4", "5", "6", "7", "8", "9">>

RECURSIVE Digits(_)
Digits(i) == IF i < 10 THEN <<DigitChars[i + 1]>> ELSE Digits(i \div 10) \o <<DigitChars[(i % 10) + 1]>>

\* the i-th paragraph of a long document: its number, and a second line for
\* every third one
Para(i) == IF i % 3 = 0 THEN Digits(i) \o <<"\n", "x">> ELSE Digits(i)

RECURSIVE JoinParas(_, _, _)
\* paragraphs i..n joined by sep
JoinParas(i, n, sep) ==
    IF i > n THEN <<>>
    ELSE IF i = n THEN Para(i)
    ELSE LET mid == (i + n) \div 2
         IN  JoinParas(i, mid, sep) \o sep \o JoinParas(mid + 1, n, sep)

ParaSeparators == {<<"\n", "\n">>, <<"\n", "\n", "\n", " ", "\n", "\n">>}

LongMarkdowns ==
    {JoinParas(1, n, sep) : n \in (BlockLimit - 1)..(BlockLimit + MaxExtra), sep \in ParaSeparators}

SmallMarkdowns == {<<>>, <<" ">>, <<"a", "\n", "b", "\n", "\n", "c">>}

SmallTranscripts == {<<>>, <<"a">>}

CreateOutcomes ==
    (IF Len(children[MINUTES_PARENT_PAGE_ID]) < MaxMinutes
     THEN {[ok |-> TRUE, id |-> NewId, exc |-> "none"]} ELSE {})
    \cup {[ok |-> FALSE, id |-> None, exc |-> e] : e \in ExcKinds}

-----------------------------------------------------------------------------
(* State machine                                                           *)

NoListing == [present |-> FALSE, at |-> 0, result |-> <<>>]

Idle(what) == [op |-> what, out |-> Returned(None, <<>>, <<>>)]

Init ==
    /\ children = [c \in Containers |-> <<>>]
    /\ cache = [c \in Containers |-> NoEntry]
    /\ now = 0
    /\ last = Idle("none")
    /\ listed = [c \in Containers |-> NoListing]

\* the transcript container holds any children
InitLister ==
    /\ children \in {[c \in Containers |->
                        IF c = TRANSCRIPT_PARENT_PAGE_ID THEN MkChildren(shapes) ELSE <<>>] :
                     shapes \in Seqs(ChildShapes, ApiPageSize + 2)}
    /\ cache = [c \in Containers |-> NoEntry]
    /\ now = 0
    /\ last = Idle("none")
    /\ listed = [c \in Containers |-> NoListing]

Listed(c, out, queried) ==
    IF queried
    THEN [listed EXCEPT ![c] = [present |-> TRUE, at |-> now, result |-> out.result]]
    ELSE listed

\* a page whose pages.create call succeeded is a child of its parent
WithCreated(out, title) ==
    IF /\ out.raised = "none"
       /\ \E i \in 1..Len(out.calls) : out.calls[i].api = "pages.create"
       /\ out.result # None
    THEN [children EXCEPT ![MINUTES_PARENT_PAGE_ID] = Append(@, ChildPage(out.result, title))]
    ELSE children

\* get_transcript_pages(c)
ListCall(c) ==
    \E outcome \in ListOutcomes :
        LET r == get_transcript_pages(c, outcome)
        IN  /\ cache' = r.cache
            /\ listed' = Listed(c, r.out, r.out.raised = "none" /\ r.out.calls # <<>>)
            /\ last' = [op |-> "list", parent |-> c, hit |-> r.hit, at |-> now,
                        outcome |-> IF r.hit THEN "not called" ELSE outcome,
                        prev |-> listed[c], out |-> r.out]
            /\ UNCHANGED <<children, now>>

\* get_page_content(page_id)
FetchCall(inputs, failing) ==
    \E pages \in inputs :
        \E fail \in IF failing THEN Fails(pages) ELSE {NoFail} :
            /\ last' = [op |-> "fetch", page_id |-> BlockId(1), pages |-> pages, fail |-> fail,
                        out |-> get_page_content(BlockId(1), pages, fail)]
            /\ UNCHANGED <<children, cache, now, listed>>

\* generate_minutes_with_gemini(transcript)
SummarizeCall(transcripts, replies) ==
    \E transcript \in transcripts, reply \in replies :
        LET out == generate_minutes_with_gemini(transcript, reply)
        IN  /\ last' = [op |-> "summarize", transcript |-> transcript,
                        reply |-> IF out.calls = <<>> THEN TextReply(<<>>) ELSE reply,
                        out |-> out]
            /\ UNCHANGED <<children, cache, now, listed>>

\* create_notion_page_with_markdown(MINUTES_PARENT_PAGE_ID, title, markdown)
WriteCall(markdowns) ==
    \E markdown \in markdowns, outcome \in CreateOutcomes :
        LET title == NewPageTitle("A")
            out == create_notion_page_with_markdown(MINUTES_PARENT_PAGE_ID, title, markdown, outcome)
        IN  /\ last' = [op |-> "write", title |-> title, markdown |-> markdown,
                        outcome |-> IF out.calls = <<>> THEN "not called"
                                    ELSE IF outcome.ok THEN "ok" ELSE outcome.exc,
                        out |-> out]
            /\ children' = WithCreated(out, title)
            /\ UNCHANGED <<cache, now, listed>>

\* What the remote services are asked in one run of the script depends on
\* how far the run gets; an answer is drawn only for a call that is made.
Unasked(reached, answers, unused) == IF reached THEN answers ELSE {unused}

\* one run of the script: the user wants the entry numbered wanted of the
\* listing shown and picks the option that carries its title
UIRun ==
    \E listOutcome \in Unasked(~Fresh(cache[CacheKey(TRANSCRIPT_PARENT_PAGE_ID)], now),
                               ListOutcomes, "ok") :
    \E shown \in {get_transcript_pages(TRANSCRIPT_PARENT_PAGE_ID, listOutcome).out} :
    \E usable \in {shown.raised = "none" /\ shown.result # <<>>} :
    \E wanted \in 1..(IF usable THEN Len(shown.result) ELSE 1),
       pressed \in Unasked(usable, BOOLEAN, FALSE) :
    \E pages \in Unasked(pressed, SmallFetchInputs, <<<<>>>>) :
    \E fail \in Unasked(pressed, Fails(pages), NoFail) :
    \E f \in {get_page_content("any", pages, fail)} :
    \E asked2 \in {pressed /\ f.raised = "none" /\ ProceedAfterFetch(f.result)} :
    \E reply \in Unasked(asked2, SmallReplies, TextReply(<<>>)) :
    \E g \in {generate_minutes_with_gemini(f.result, reply)} :
    \E asked3 \in {asked2 /\ g.raised = "none" /\ ProceedAfterSummary(g.result)} :
    \E created \in Unasked(asked3, CreateOutcomes,
                           [ok |-> FALSE, id |-> None, exc |-> "OtherException"]) :
    \E run \in {Script([listOutcome |-> listOutcome, wanted |-> wanted,
                        pressed |-> pressed, pages |-> pages, fail |-> fail,
                        reply |-> reply, created |-> created])} :
        /\ cache' = run.cache
        /\ listed' = Listed(TRANSCRIPT_PARENT_PAGE_ID,
                            [result |-> run.transcript_pages], run.listed)
        /\ children' = WithCreated(run.flow.out,
                           IF run.transcript_pages = <<>> THEN "none"
                           ELSE NewPageTitle(run.transcript_pages[wanted].title))
        /\ last' = [op |-> "ui", pressed |-> pressed, wanted |-> wanted,
                    hit |-> run.hit,
                    transcript_pages |-> run.transcript_pages,
                    page_options |-> run.page_options,
                    selected_page_id |-> run.selected_page_id,
                    invoked |-> run.flow.invoked,
                    transcript_text |-> run.flow.transcript_text,
                    generated_minutes_md |-> run.flow.generated_minutes_md,
                    out |-> run.flow.out]
        /\ UNCHANGED now

\* someone adds a sub-page to a container of the workspace
CreatePage(c, titles) ==
    /\ Len(children[c]) < MaxCreated
    /\ \E title \in titles :
           children' = [children EXCEPT ![c] = Append(@, ChildPage(NewId, title))]
    /\ last' = Idle("create_page")
    /\ UNCHANGED <<cache, now, listed>>

Tick ==
    /\ now + TickSecs <= MaxNow
    /\ now' = now + TickSecs
    /\ last' = Idle("tick")
    /\ UNCHANGED <<children, cache, listed>>

\* the four components, called one after another with any arguments, any
\* answer of the remote services and any failure of theirs
Next ==
    \/ ListCall(TRANSCRIPT_PARENT_PAGE_ID)
    \/ FetchCall(SmallFetchInputs, TRUE)
    \/ SummarizeCall(SmallTranscripts, SmallReplies)
    \/ WriteCall(SmallMarkdowns)
    \/ CreatePage(TRANSCRIPT_PARENT_PAGE_ID, {"A"})
    \/ Tick

Spec == Init /\ [][Next]_vars

\* runs of the script over a workspace that gains transcript pages
NextUI ==
    \/ UIRun
    \/ CreatePage(TRANSCRIPT_PARENT_PAGE_ID, Titles)

SpecUI == Init /\ [][NextUI]_vars

\* the lister on any container contents
NextLister == ListCall(TRANSCRIPT_PARENT_PAGE_ID)

SpecLister == InitLister /\ [][NextLister]_vars

\* the lister called for either container while pages are added and time
\* passes
NextCache ==
    \/ \E c \in Containers : ListCall(c)
    \/ \E c \in Containers : CreatePage(c, {"A"})
    \/ Tick

SpecCache == Init /\ [][NextCache]_vars

\* one call of a component on any input
Fresh0 == last.op = "none"

NextFetch == Fresh0 /\ FetchCall(FetchInputs, FALSE)

SpecFetch == Init /\ [][NextFetch]_vars

NextSummarize == Fresh0 /\ SummarizeCall({<<"a">>}, {TextReply(t) : t \in ReplyTexts})

SpecSummarize == Init /\ [][NextSummarize]_vars

NextWriter == Fresh0 /\ WriteCall(ShortMarkdowns \cup LongMarkdowns)

SpecWriter == Init /\ [][NextWriter]_vars

-----------------------------------------------------------------------------
(* Properties                                                              *)

IsListCall == last.op = "list"
IsFetchCall == last.op = "fetch"
IsSummarizeCall == last.op = "summarize"
IsWriteCall == last.op = "write"
IsUIRun == last.op = "ui"

\* the sub-pages of a container, most recently created first, at most n
RecentSubpages(blocks, n) ==
    LET subs == SelectSeq(blocks, LAMBDA b : b.type = "child_page")
        k == IF Len(subs) < n THEN Len(subs) ELSE n
    IN  [i \in 1..k |-> [title |-> subs[Len(subs) + 1 - i].title,
                         id |-> subs[Len(subs) + 1 - i].id]]

\* C1: a call of the lister that queries the workspace successfully returns
\* the min(k, 5) most recently created of the k sub-pages of the container,
\* most recent first, however many children the container has.
C1_ListsMostRecent ==
    (IsListCall /\ last.outcome = "ok")
        => last.out.result = RecentSubpages(children[last.parent], RecentCount)

TextKinds == {"paragraph", "heading_1", "heading_2", "heading_3",
              "bulleted_list_item", "numbered_list_item", "quote", "code"}

PlainText(block) == Concat([i \in 1..Len(block.rich_text) |-> block.rich_text[i].plain_text])

\* the text of the blocks of all cursor pages, before trimming
UntrimmedText(pages) ==
    LET blocks == Concat(pages)
    IN  Concat([i \in 1..Len(blocks) |->
                   IF blocks[i].type \in TextKinds
                   THEN PlainText(blocks[i]) \o <<"\n">> ELSE <<>>])

\* r is t without its leading and trailing whitespace
IsTrimOf(r, t) ==
    /\ r = <<>> \/ (~IsSpace(r[1]) /\ ~IsSpace(r[Len(r)]))
    /\ \E i \in 0..Len(t) :
           /\ i + Len(r) <= Len(t)
           /\ SubSeq(t, i + 1, i + Len(r)) = r
           /\ \A k \in (1..i) \cup ((i + Len(r) + 1)..Len(t)) : IsSpace(t[k])

SentBlocks == last.out.calls[1].children

IsPageCreate == IsWriteCall /\ last.out.calls # <<>>

\* the paragraphs of a markdown text: the pieces between double newlines,
\* trimmed, without the empty ones
Surviving(markdown) ==
    LET pieces == Split(Strip(markdown), <<"\n", "\n">>)
    IN  SelectSeq([k \in 1..Len(pieces) |-> Strip(pieces[k])], LAMBDA para : para # <<>>)

\* the runs of a paragraph of n lines: 2n-1 runs, the lines with a newline run
\* between each two
RunsFor(para) ==
    LET lines == Split(para, <<"\n">>)
    IN  [j \in 1..(2 * Len(lines) - 1) |->
            IF j % 2 = 1 THEN TextRun(lines[(j + 1) \div 2]) ELSE TextRun(<<"\n">>)]

BlocksFor(paras, n) ==
    /\ Len(SentBlocks) = n
    /\ \A k \in 1..n :
           /\ SentBlocks[k].type = "paragraph"
           /\ SentBlocks[k].rich_text = RunsFor(paras[k])

\* C3 as stated: every surviving paragraph becomes one paragraph block, in
\* input order, with 2n-1 runs for its n lines.
C3_EveryParagraphABlock ==
    IsPageCreate =>
        LET paras == Surviving(last.markdown) IN BlocksFor(paras, Len(paras))

\* C3, amended: the first 100 surviving paragraphs each become one paragraph
\* block, in input order, with 2n-1 runs for the n lines (the lines as text
\* runs, a newline run between each two, none after the last); a surviving
\* paragraph after the 100th and a blank-only paragraph give no block.
C3_FirstParagraphsBlocks ==
    IsPageCreate =>
        LET paras == Surviving(last.markdown)
        IN  BlocksFor(paras, IF Len(paras) < BlockLimit THEN Len(paras) ELSE BlockLimit)

C3_Witness ==
    /\ IsPageCreate
    /\ last.markdown = <<"a", "\n", "a", "\n", "\n", "\n", "\n", "a">>
    /\ Len(SentBlocks) = 2
    /\ Len(SentBlocks[1].rich_text) = 3
    /\ Len(SentBlocks[2].rich_text) = 1

TruncationWarnings ==
    Len(SelectSeq(last.out.msgs, LAMBDA m : m = "warning: truncated"))

\* C4: the batch given to the page-create call never has more than 100
\* blocks; when the markdown has more than 100 non-blank paragraphs the batch
\* is the first 100 of them in order and the truncation warning is shown once.
C4_BatchCapped ==
    IsPageCreate =>
        /\ Len(SentBlocks) <= BlockLimit
        /\ LET paras == Surviving(last.markdown)
           IN  Len(paras) > BlockLimit =>
                   /\ BlocksFor(paras, BlockLimit)
                   /\ TruncationWarnings = 1

C4_Witness ==
    /\ IsPageCreate
    /\ Len(Surviving(last.markdown)) = BlockLimit + 1
    /\ Len(SentBlocks) = BlockLimit
    /\ TruncationWarnings = 1

IsComponentCall == IsListCall \/ IsFetchCall \/ IsSummarizeCall \/ IsWriteCall

\* a remote call of the last component call failed, or the model answered
\* without text
RemoteFailed ==
    \/ IsListCall /\ last.outcome \in ExcKinds
    \/ IsFetchCall /\ last.fail.at >= 1
    \/ IsSummarizeCall /\ last.out.calls # <<>> /\ last.reply.kind # "text"
    \/ IsWriteCall /\ last.outcome \in ExcKinds

BenignResult ==
    IF IsWriteCall THEN last.out.result = None ELSE last.out.result = <<>>

ErrorMessages ==
    {"error: APIResponseError", "error: Exception",
     "error: no text in response", "error: Gemini API"}

Reported == \E i \in 1..Len(last.out.msgs) : last.out.msgs[i] \in ErrorMessages

\* C5: no exception leaves the lister, the fetcher, the summarizer or the
\* writer; a failed remote call (at any point of the fetcher's pagination) or
\* a model response without text is reported to the user and gives the empty
\* list, the empty string or no value.
C5_FailuresContained ==
    IsComponentCall =>
        /\ last.out.raised = "none"
        /\ RemoteFailed => (BenignResult /\ Reported)

C5_Witness ==
    /\ IsFetchCall
    /\ last.fail = [at |-> 2, exc |-> "OtherException"]
    /\ Len(last.out.calls) = 2
    /\ last.out.raised = "none"
    /\ last.out.result = <<>>
    /\ Reported

\* C6: the summarizer given the empty string calls no remote service and
\* returns the empty string; the writer given empty markdown calls no remote
\* service and returns no value.
C6_EmptyInputNoCall ==
    /\ (IsSummarizeCall /\ last.transcript = <<>>)
           => (last.out.calls = <<>> /\ last.out.result = <<>> /\ last.out.raised = "none")
    /\ (IsWriteCall /\ last.markdown = <<>>)
           => (last.out.calls = <<>> /\ last.out.result = None /\ last.out.raised = "none")

C6_Witness ==
    /\ IsWriteCall
    /\ last.markdown = <<>>
    /\ last.out.calls = <<>>
    /\ last.out.result = None

\* C7: a call of the lister made less than 600 seconds after the last call
\* that queried the workspace for the same container makes no remote call and
\* returns what that call returned, whatever was added to the container
\* since; any other call queries the workspace and, when the query succeeds,
\* returns the current sub-pages (of a container that fits one cursor page).
C7_CachedForTTL ==
    IsListCall =>
        IF last.prev.present /\ last.at - last.prev.at < CacheTTL
        THEN /\ last.out.calls = <<>>
             /\ last.out.result = last.prev.result
        ELSE /\ Len(last.out.calls) = 1
             /\ (last.outcome = "ok" /\ Len(children[last.parent]) <= ApiPageSize)
                    => last.out.result = RecentSubpages(children[last.parent], RecentCount)

\* a page added after the listing was cached is not listed
C7_Witness ==
    /\ IsListCall
    /\ last.hit
    /\ last.at > last.prev.at
    /\ Len(last.out.result) < RecentCount
    /\ \E i \in 1..Len(children[last.parent]) :
           /\ children[last.parent][i].type = "child_page"
           /\ \A k \in 1..Len(last.out.result) :
                  last.out.result[k].id # children[last.parent][i].id

EndsWith(s, lit) == Len(lit) <= Len(s) /\ SubSeq(s, Len(s) - Len(lit) + 1, Len(s)) = lit

\* C8 (in part): a reply that, once trimmed, neither starts nor ends with a
\* fence marker is returned unchanged apart from the trimming: fence markers
\* inside the reply stay.
C8_InteriorUnchanged ==
    (IsSummarizeCall /\ last.out.calls # <<>> /\ last.reply.kind = "text")
        => LET reply == last.reply.text
           IN  (~MatchAt(Strip(reply), 1, Fence) /\ ~EndsWith(Strip(reply), Fence))
                   => IsTrimOf(last.out.result, reply)

Fetched == SelectSeq(last.invoked, LAMBDA step : step.fn = "get_page_content")

\* C9: every entry of the listing shown can be selected, and the fetcher is
\* called with the id of the entry the user chose.
C9_SelectedIsFetched ==
    IsUIRun =>
        /\ \A k \in 1..Len(last.transcript_pages) :
               \E i \in 1..Len(last.page_options) :
                   last.page_options[i].value = last.transcript_pages[k].id
        /\ \A i \in 1..Len(Fetched) : Fetched[i].arg = last.transcript_pages[last.wanted].id

IsPrefix(a, b) == Len(a) <= Len(b) /\ SubSeq(b, 1, Len(a)) = a

Components ==
    <<"get_page_content", "generate_minutes_with_gemini", "create_notion_page_with_markdown">>

Rank(api) ==
    CASE api = "blocks.children.list" -> 1
      [] api = "generate_content" -> 2
      [] api = "pages.create" -> 3

\* the remote calls of the run after the listing
FlowCalls == SelectSeq(last.out.calls, LAMBDA c : c.api # "blocks.children.list" \/ c.arg # TRANSCRIPT_PARENT_PAGE_ID)

CallsOf(api) == SelectSeq(FlowCalls, LAMBDA c : c.api = api)

\* C10: a run of the script calls the fetcher, the summarizer and the writer
\* in this order, each at most once and none without the button; the
\* summarizer only with the non-empty text fetched, the writer only with the
\* non-empty summary returned; the remote calls follow the same order, with
\* at most one generation call, made on the text fetched, and at most one
\* page-create call, made with the blocks of that summary; a step that fails
\* or returns nothing is the last.
C10_FlowInOrder ==
    IsUIRun =>
        LET steps == last.invoked
            fns == [i \in 1..Len(steps) |-> steps[i].fn]
        IN  /\ IsPrefix(fns, Components)
            /\ ~last.pressed => steps = <<>>
            /\ Len(steps) >= 2 =>
                   /\ last.transcript_text # <<>>
                   /\ steps[2].arg = last.transcript_text
            /\ Len(steps) = 3 =>
                   /\ last.generated_minutes_md # <<>>
                   /\ steps[3].arg = last.generated_minutes_md
            /\ \A i, j \in 1..Len(FlowCalls) :
                   i < j => Rank(FlowCalls[i].api) <= Rank(FlowCalls[j].api)
            /\ Len(CallsOf("generate_content")) <= 1
            /\ Len(CallsOf("pages.create")) <= 1
            /\ \A i \in 1..Len(FlowCalls) :
                   /\ FlowCalls[i].api = "blocks.children.list" =>
                          (Len(steps) >= 1 /\ FlowCalls[i].arg = last.selected_page_id)
                   /\ FlowCalls[i].api = "generate_content" =>
                          (Len(steps) >= 2 /\ FlowCalls[i].arg = last.transcript_text)
                   /\ FlowCalls[i].api = "pages.create" =>
                          /\ Len(steps) = 3
                          /\ FlowCalls[i].children = MarkdownToBlocks(last.generated_minutes_md).blocks
            /\ last.out.raised = "none"

C10_Witness ==
    /\ IsUIRun
    /\ Len(last.invoked) = 3
    /\ Len(CallsOf("generate_content")) = 1
    /\ Len(CallsOf("pages.create")) = 1
    /\ last.out.result # None
    /\ last.generated_minutes_md = <<"a", "\n", "b">>

=============================================================================
